---- MODULE Spec2Model ----
(***************************************************************************)
(* Brew-Brain monitoring loop: ingestion/calibration watermark, alert      *)
(* policy (cooldowns, quiet hours), the anomaly engine's dispatches and    *)
(* the APScheduler job wiring, modelled from app/services/*.py.            *)
(*                                                                         *)
(* Time is epoch seconds.  Gravity and temperature inputs are drawn from   *)
(* small sets by the actions; only what the handlers keep between runs is  *)
(* state.                                                                  *)
(***************************************************************************)
EXTENDS Integers, Sequences, FiniteSets, TLC

VARIABLES
    now,                  \* wall clock, epoch seconds
    test_mode,            \* config "test_mode" == "true"
    raw,                  \* timestamps of sensor_data samples visible to queries
    pending,              \* samples accepted by the store but not yet visible
    last_processed_time,  \* processing_state["last_processed_time"]
    calibrated,           \* raw timestamp -> calibrated points written for it (ever)
    batch_count,          \* raw timestamp -> batches it was put into (this process)
    cycle_status,         \* how the last ingestion cycle ended
    alert_state,          \* worker.alert_state: last_*_alert epoch seconds
    tilt_last_seen,       \* TILT_STATE["last_seen"], 0 when None
    watched,              \* the alert type whose deliveries are recorded
    last_sent,            \* time of the last delivered notification of that
                          \* type in this process, 0 when none
    short_gap,            \* two of them were less than the cooldown apart
    request,              \* arguments and environment of a send_telegram_message call
    response,             \* what the call returned
    instances,            \* job id -> executions in flight (the executor's count)
    pending_runs,         \* job id -> fire times passed and not yet processed
    job_event,            \* the scheduler's latest event
    probe,                \* what one run of the anomaly engine finds: the
                          \* store's answers and the configuration
    report,               \* what run_all_anomaly_checks returned for it
    curve,                \* the arguments of a predict_fg_from_curve call
    prediction,           \* what the call returned, or that it raised
    cycle,                \* what one non-test ingestion cycle reads: the
                          \* window, one new record and the configuration
    cycle_batch,          \* the points_to_write it builds from them
    last_update_id,       \* telegram._last_update_id
    tg_updates,           \* the updates Telegram holds as unconfirmed
    tg_issued,            \* the highest update id Telegram has given out
    handled,              \* update id -> calls of handle_telegram_command
                          \* with it, in this process and ever
    outsider_served,      \* a command of a chat other than the configured
                          \* one reached the handler
    tilt_cache            \* TILT_STATE without last_seen

ingestVars == <<raw, pending, last_processed_time, calibrated, batch_count,
                cycle_status>>
alertVars == <<alert_state, tilt_last_seen, watched, last_sent, short_gap>>
notifyVars == <<request, response>>
schedVars == <<instances, pending_runs, job_event>>
pollerVars == <<last_update_id, tg_updates, tg_issued, handled,
                outsider_served>>
engineVars == <<probe, report, curve, prediction, cycle, cycle_batch,
                pollerVars, tilt_cache>>

----------------------------------------------------------------------------
(* Bounds *)

MaxTicks == 1          \* clock ticks of Spec, TickSeconds each
MaxSamples == 2        \* raw samples produced by the sensor in Spec
MaxIngestTicks == 4    \* the same for SpecIngest
MaxIngestSamples == 3
MaxAlertTicks == 2     \* clock ticks of SpecAlerts, AlertTickSeconds each
MaxCount == 2          \* history counters saturate here
MaxBacklog == 3        \* fire times of all jobs waiting for the scheduler
MaxDue == 1            \* the same while the scheduler keeps up
MaxUpdates == 3        \* updates Telegram receives for the bot

(* Program constants *)

StartTime == 86400             \* an epoch instant at local midnight
TickSeconds == 300             \* the alert job's interval
AlertTickSeconds == 14400
WatermarkLookback == 600       \* timedelta(minutes=10)
LookbackWindow == 1814400      \* range(start: -21d)

MaxOf(a, b) == IF a >= b THEN a ELSE b

Timestamps == { StartTime + k * TickSeconds :
                  k \in 0..MaxOf(MaxTicks, MaxIngestTicks) }

Max(S) == CHOOSE x \in S : \A y \in S : y <= x

Bump(n) == IF n < MaxCount THEN n + 1 ELSE MaxCount

----------------------------------------------------------------------------
(* Ingestion: process_data_once *)

\* the -21d range query over sensor_data (SG or Temp records), keyed by time
QueryWindow == { ts \in raw : ts > now - LookbackWindow }

\* faulty variant: the record at the watermark counts as new again
IsNewOrEqual(rec_time, watermark) == rec_time >= watermark

\* the comparison that decides whether a record is calibrated in this cycle
IsNew(rec_time, watermark) == rec_time > watermark

\* faulty variant: the whole window is calibrated again in every cycle
NewRecordsWholeWindow(readings, watermark) == readings

\* the loop over sorted_times: every record above the watermark is put into
\* the batch and the watermark is moved to it, in ascending order, so the
\* loop leaves the watermark at the largest new timestamp
NewRecords(readings, watermark) == { ts \in readings : IsNew(ts, watermark) }

\* faulty variant: the watermark follows the records without the newness guard and
\* ends at the oldest record of the window
WatermarkUnguarded(readings, watermark) ==
    IF readings = {} THEN watermark
    ELSE CHOOSE x \in readings : \A y \in readings : x <= y

WatermarkAfterLoop(readings, watermark) ==
    IF NewRecords(readings, watermark) = {} THEN watermark
    ELSE Max(NewRecords(readings, watermark))

\* where an exception inside the try block can be raised
CycleOutcomes == {"ok", "config_error", "query_error", "write_error"}

\* module import of worker.py: the watermark is re-derived from the clock
InitialWatermark(t) == t - WatermarkLookback

ProcessDataOnce(outcome, pred) ==
    /\ UNCHANGED <<notifyVars, schedVars, engineVars>>
    /\ UNCHANGED <<now, test_mode, raw, pending>>
    /\ UNCHANGED alertVars
    /\ IF outcome = "config_error"
       THEN \* float(get_config("offset")) raises before anything is built
            /\ cycle_status' = "config_error"
            /\ UNCHANGED <<last_processed_time, calibrated, batch_count>>
       ELSE IF test_mode
       THEN \* one synthetic test_readings point, no calibration
            /\ outcome \in {"ok", "write_error"}
            /\ pred = FALSE
            /\ cycle_status' = outcome
            /\ UNCHANGED <<last_processed_time, calibrated, batch_count>>
       ELSE IF outcome = "query_error"
       THEN /\ pred = FALSE
            /\ cycle_status' = "query_error"
            /\ UNCHANGED <<last_processed_time, calibrated, batch_count>>
       ELSE LET readings == QueryWindow
                batch == NewRecords(readings, last_processed_time)
                empty == batch = {} /\ ~pred
            IN  \* write_api.write is only called for a non-empty batch
                /\ outcome = "write_error" => ~empty
                /\ last_processed_time' =
                       WatermarkAfterLoop(readings, last_processed_time)
                /\ batch_count' = [ts \in Timestamps |->
                       IF ts \in batch THEN Bump(batch_count[ts])
                       ELSE batch_count[ts]]
                /\ cycle_status' = outcome
                /\ calibrated' = [ts \in Timestamps |->
                       IF outcome = "ok" /\ ts \in batch
                       THEN Bump(calibrated[ts]) ELSE calibrated[ts]]

----------------------------------------------------------------------------
(* Local wall-clock time and the configured alert window *)

SecondsPerDay == 86400

\* time.localtime(now).tm_hour, and now.hour * 60 + now.minute
LocalHour(t) == (t % SecondsPerDay) \div 3600
LocalMinutes(t) == (t % SecondsPerDay) \div 60

\* A configured "HH:MM" string is the sequence of its ":"-separated parts;
\* a part that is not a number is -1, an unset key is <<>>.
DefaultStart == <<8, 0>>
DefaultEnd == <<22, 0>>

OrDefault(str, default) == IF str = <<>> THEN default ELSE str

\* int(s.split(":")[0]): only the first part is read
HourParses(str) == Len(str) >= 1 /\ str[1] >= 0
HourOf(str) == str[1]

\* h, m = map(int, s.split(":")): exactly two numeric parts
HourMinParses(str) == Len(str) = 2 /\ str[1] >= 0 /\ str[2] >= 0
MinutesOf(str) == str[1] * 60 + str[2]

\* faulty variant: the window is compared by the hour only, as the alert job does
is_quiet_hours_by_hour(start_cfg, end_cfg, t) ==
    LET start_str == OrDefault(start_cfg, DefaultStart)
        end_str == OrDefault(end_cfg, DefaultEnd)
    IN  IF ~(HourMinParses(start_str) /\ HourMinParses(end_str))
        THEN FALSE
        ELSE IF HourOf(end_str) > HourOf(start_str)
             THEN LocalHour(t) >= HourOf(end_str)
                    \/ LocalHour(t) < HourOf(start_str)
             ELSE HourOf(end_str) <= LocalHour(t)
                    /\ LocalHour(t) < HourOf(start_str)

\* notifications.is_quiet_hours at local time t
is_quiet_hours(start_cfg, end_cfg, t) ==
    LET start_str == OrDefault(start_cfg, DefaultStart)
        end_str == OrDefault(end_cfg, DefaultEnd)
        current_minutes == LocalMinutes(t)
    IN  IF ~(HourMinParses(start_str) /\ HourMinParses(end_str))
        THEN FALSE     \* except: default to allowing notifications
        ELSE LET start_minutes == MinutesOf(start_str)
                 end_minutes == MinutesOf(end_str)
             IN  IF end_minutes > start_minutes
                 THEN current_minutes >= end_minutes
                        \/ current_minutes < start_minutes
                 ELSE end_minutes <= current_minutes
                        /\ current_minutes < start_minutes

\* the active-hours gate at the top of check_alerts_once
is_active_time(start_cfg, end_cfg, t) ==
    LET start_str == OrDefault(start_cfg, DefaultStart)
        end_str == OrDefault(end_cfg, DefaultEnd)
        local_hour == LocalHour(t)
    IN  IF ~(HourParses(start_str) /\ HourParses(end_str))
        THEN TRUE      \* except: logged, the alerts go ahead
        ELSE LET start_h == HourOf(start_str)
                 end_h == HourOf(end_str)
             IN  IF start_h < end_h
                 THEN start_h <= local_hour /\ local_hour < end_h
                 ELSE local_hour >= start_h \/ local_hour < end_h

----------------------------------------------------------------------------
(* Notifier *)

\* what the HTTP POST to the Telegram API does
HttpOutcomes == {"ok", "rejected", "exception"}

\* telegram.send_telegram: returns nothing; the message reaches the chat
\* only with credentials set and a request that goes through
SendTelegramDelivers(configured, http) == configured /\ http = "ok"

\* notifications.send_telegram_message
send_telegram_message(force, start_cfg, end_cfg, t, configured, http) ==
    IF ~force /\ is_quiet_hours(start_cfg, end_cfg, t)
    THEN [status |-> "skipped", reason |-> "quiet_hours"]
    ELSE IF ~configured
    THEN [status |-> "error", reason |-> "credentials"]
    ELSE IF http = "ok"
    THEN [status |-> "success", reason |-> "none"]
    ELSE [status |-> "error", reason |-> http]

----------------------------------------------------------------------------
(* Alert policy state *)

AlertTypes == {"signal", "temp", "stall", "runaway", "statistical"}

COOLDOWN == 14400
STALL_COOLDOWN == 43200

Cooldown(type) ==
    IF type \in {"signal", "temp"} THEN COOLDOWN ELSE STALL_COOLDOWN

InitialAlertState ==
    [last_tilt_alert |-> 0, last_temp_alert |-> 0, last_stall_alert |-> 0]

\* bookkeeping of the notifications that reached the chat
LastSentAfter(types) == IF watched \in types THEN now ELSE last_sent

ShortGapAfter(types) ==
    \/ short_gap
    \/ /\ watched \in types
       /\ last_sent # 0
       /\ now - last_sent < Cooldown(watched)

----------------------------------------------------------------------------
(* Scheduled alert job: check_alerts_once *)

tilt_timeout_min == 60         \* DEFAULTS["tilt_timeout_min"]
temp_max == 28                 \* DEFAULTS["temp_max"], degrees C
target_fg == 1010              \* DEFAULTS["target_fg"], gravity x 1000

\* What the series store answers during one job run: the queries that
\* raise (err), the age of the newest sensor_data record of the last 24h
\* (-1: none), the last() Temp records of the last 15 minutes, the latest SG
\* of the last hour and the SG of 24h ago (x 1000, 0: none), the hourly SG
\* aggregates of the last 24h (count, first, last, hours spanned), the 30
\* minute mean temperature (0: none), the first SG of the last 12h, and
\* the hourly point counts with max(z_temp, z_rate) x 100 (rounded up) and
\* the anomaly score x 100.
AllQueries == {"signal", "temp", "stall", "stalled", "temp_mean", "runaway",
               "last_reading", "zscore"}

View(err, last_age, temps, sg_current, sg_yesterday, hourly, temp_mean, first_sg_12h, z) ==
    [err |-> err, last_age |-> last_age, temps |-> temps,
     sg_current |-> sg_current, sg_yesterday |-> sg_yesterday,
     hourly |-> hourly, temp_mean |-> temp_mean,
     first_sg_12h |-> first_sg_12h, z |-> z]

Hourly(n, first_sg, last_sg, hours) ==
    [n |-> n, first_sg |-> first_sg, last_sg |-> last_sg, hours |-> hours]

ZStats(temp_n, sg_n, max_z, score) ==
    [temp_n |-> temp_n, sg_n |-> sg_n, max_z |-> max_z, score |-> score]

StoreViews ==
    { \* store unreachable
      View(AllQueries, -1, <<>>, 0, 0, Hourly(0, 0, 0, 0), 0, 0,
           ZStats(0, 0, 0, 0)),
      \* empty store
      View({}, -1, <<>>, 0, 0, Hourly(0, 0, 0, 0), 0, 0, ZStats(0, 0, 0, 0)),
      \* young batch, fermenting
      View({}, 600, <<20>>, 1048, 0, Hourly(3, 1050, 1048, 2), 20, 1050,
           ZStats(11, 3, 0, 0)),
      \* healthy fermentation
      View({}, 600, <<20>>, 1040, 1050, Hourly(24, 1050, 1040, 23), 20, 1045,
           ZStats(48, 48, 100, 40)),
      \* stalled and hot, one sensor reporting Fahrenheit
      View({}, 600, <<20, 90>>, 1040, 1041, Hourly(24, 1040, 1040, 23), 30,
           1040, ZStats(48, 48, 300, 120)),
      \* the same store with two queries timing out
      View({"temp", "stalled"}, 600, <<20, 90>>, 1040, 1041,
           Hourly(24, 1040, 1040, 23), 30, 1040, ZStats(48, 48, 300, 120)),
      \* runaway, above the yeast's range
      View({}, 600, <<26>>, 1020, 1060, Hourly(24, 1060, 1020, 23), 26, 1050,
           ZStats(48, 48, 220, 88)),
      \* sensor silent for 90 minutes
      View({}, 5400, <<>>, 0, 1041, Hourly(22, 1042, 1040, 21), 0, 1041,
           ZStats(46, 46, 50, 20)) }

\* The configuration a run reads (it can be changed through the API between
\* runs): alert_start_time, alert_end_time, whether the Telegram token and
\* chat are set, and yeast_max_temp (0: unset).
Config(start, end, configured, yeast_max) ==
    [alert_start_time |-> start, alert_end_time |-> end,
     telegram_configured |-> configured, yeast_max_temp |-> yeast_max]

DefaultConfig == Config(<<>>, <<>>, TRUE, 0)         \* active 08:00-22:00
NoCredentials == Config(<<>>, <<>>, FALSE, 0)
NightConfig == Config(<<22, 0>>, <<8, 0>>, TRUE, 24) \* active over night

\* the configuration during one run and what the Telegram API does then
RunOptions ==
    { <<DefaultConfig, "ok">>, <<DefaultConfig, "exception">>,
      <<NoCredentials, "ok">>,
      <<NightConfig, "ok">>, <<NightConfig, "rejected">> }

\* timestamp of the newest record the store reports, 0: none
InfluxLast(view) == IF view.last_age < 0 THEN 0 ELSE now - view.last_age

\* val = (raw - 32) * 5/9 if raw > 40 else raw, compared as val > limit
TempAbove(raw_val, limit) ==
    IF raw_val > 40 THEN (raw_val - 32) * 5 > limit * 9 ELSE raw_val > limit

\* faulty variant: the store is not asked when the live cache is stale
SignalLostCacheOnly(last_seen, influx_last, timeout_min) ==
    ~(last_seen > 0 /\ (now - last_seen) < timeout_min * 60)

\* perform_signal_loss_check up to the alert trigger: TRUE when neither the
\* live cache nor the store shows a reading younger than the timeout
SignalLost(last_seen, influx_last, timeout_min) ==
    LET fresh(ts) == ts > 0 /\ (now - ts) < timeout_min * 60
    IN  ~fresh(last_seen) /\ ~fresh(influx_last)

\* the types whose alert branch is taken by one run of the job
SignalFires(view) ==
    IF tilt_last_seen > 0 /\ now - tilt_last_seen < tilt_timeout_min * 60
    THEN FALSE                      \* memory is fresh, no store query
    ELSE /\ "signal" \notin view.err
         /\ SignalLost(tilt_last_seen, InfluxLast(view), tilt_timeout_min)
         /\ now - alert_state.last_tilt_alert > COOLDOWN

\* the loop over the Temp records: the first record over a limit sends and
\* sets last_temp_alert = now, which closes the cooldown test for the rest
TempFires(view, yeast_max) ==
    /\ "temp" \notin view.err
    /\ now - alert_state.last_temp_alert > COOLDOWN
    /\ \E i \in 1..Len(view.temps) :
          \/ TempAbove(view.temps[i], temp_max)
          \/ yeast_max # 0 /\ TempAbove(view.temps[i], yeast_max)

StallFires(view) ==
    /\ now - alert_state.last_stall_alert > STALL_COOLDOWN
    /\ "stall" \notin view.err
    /\ view.sg_current # 0 /\ view.sg_yesterday # 0
    /\ view.sg_yesterday - view.sg_current < 2
    /\ view.sg_current > target_fg + 5

CheckAlertsOnce(config, http, view) ==
    /\ UNCHANGED <<notifyVars, schedVars, engineVars>>
    /\ UNCHANGED <<now, test_mode, tilt_last_seen, watched>>
    /\ UNCHANGED ingestVars
    /\ IF test_mode \/ ~is_active_time(config.alert_start_time,
                                       config.alert_end_time, now)
       THEN UNCHANGED <<alert_state, last_sent, short_gap>>
       ELSE LET signal == SignalFires(view)
                temp == TempFires(view, config.yeast_max_temp)
                stall == StallFires(view)
                fired == (IF signal THEN {"signal"} ELSE {})
                           \cup (IF temp THEN {"temp"} ELSE {})
                           \cup (IF stall THEN {"stall"} ELSE {})
                sent == { type \in fired :
                            SendTelegramDelivers(
                                config.telegram_configured, http) }
            IN  /\ alert_state' =
                     [last_tilt_alert |-> IF signal THEN now
                                          ELSE alert_state.last_tilt_alert,
                      last_temp_alert |-> IF temp THEN now
                                          ELSE alert_state.last_temp_alert,
                      last_stall_alert |-> IF stall THEN now
                                           ELSE alert_state.last_stall_alert]
                /\ last_sent' = LastSentAfter(sent)
                /\ short_gap' = ShortGapAfter(sent)

----------------------------------------------------------------------------
(* Anomaly engine: run_all_anomaly_checks and its five checks.  Gravity is *)
(* x 1000 (points), so 1.020 is 1020.                                      *)

TEMP_DEVIATION_C == 1               \* degrees
STALL_THRESHOLD_POINTS_PER_DAY == 1
RUNAWAY_THRESHOLD_POINTS_12H == 20
SIGNAL_LOSS_MINUTES == 60
Z_SCORE_THRESHOLD_X100 == 250      \* Z_SCORE_THRESHOLD = 2.5

\* faulty variant: the gravity is not looked at, only the slope
check_stalled_any_gravity(view) ==
    LET q == view.hourly
    IN  IF "stalled" \in view.err THEN "error"
        ELSE IF q.n < 4 THEN "insufficient_data"
        ELSE IF q.hours < 1 THEN "insufficient_time"
        ELSE IF (q.first_sg - q.last_sg) * 24
                    < STALL_THRESHOLD_POINTS_PER_DAY * q.hours
        THEN "stalled"
        ELSE "normal"

check_stalled_fermentation(view) ==
    LET q == view.hourly
    IN  IF "stalled" \in view.err THEN "error"
        ELSE IF q.n < 4 THEN "insufficient_data"
        ELSE IF q.hours < 1 THEN "insufficient_time"
        \* points_per_day = (first - last) * 1000 / (hours / 24)
        ELSE IF /\ q.last_sg > 1020
                /\ (q.first_sg - q.last_sg) * 24
                       < STALL_THRESHOLD_POINTS_PER_DAY * q.hours
        THEN "stalled"
        ELSE "normal"

\* TEMP_DEVIATION_F is not defined in anomaly.py: the comparison raises
\* NameError, which the check's except clause turns into an error result
check_temperature_deviation(view) ==
    IF "temp_mean" \in view.err THEN "error"
    ELSE IF view.temp_mean = 0 THEN "no_data"
    ELSE "error"

\* faulty variant: a drop of exactly the threshold counts as runaway
check_runaway_at_threshold(view) ==
    IF "runaway" \in view.err THEN "error"
    ELSE IF view.first_sg_12h = 0 \/ view.sg_current = 0
    THEN "insufficient_data"
    ELSE IF view.first_sg_12h - view.sg_current
               >= RUNAWAY_THRESHOLD_POINTS_12H
    THEN "runaway"
    ELSE "normal"

\* faulty variant: a missing sample counts as gravity 0
check_runaway_none_as_zero(view) ==
    IF "runaway" \in view.err THEN "error"
    ELSE IF view.first_sg_12h - view.sg_current
               > RUNAWAY_THRESHOLD_POINTS_12H
    THEN "runaway"
    ELSE "normal"

check_runaway_fermentation(view) ==
    IF "runaway" \in view.err THEN "error"
    ELSE IF view.first_sg_12h = 0 \/ view.sg_current = 0
    THEN "insufficient_data"
    ELSE IF view.first_sg_12h - view.sg_current
               > RUNAWAY_THRESHOLD_POINTS_12H
    THEN "runaway"
    ELSE "normal"

check_signal_loss(view) ==
    IF "last_reading" \in view.err THEN "error"
    ELSE IF view.last_age < 0 THEN "offline"
    ELSE IF view.last_age > SIGNAL_LOSS_MINUTES * 60 THEN "signal_loss"
    ELSE "normal"

calculate_anomaly_score(view) ==
    LET q == view.z
    IN  IF "zscore" \in view.err THEN "error"
        ELSE IF q.temp_n < 12 \/ q.sg_n < 12 THEN "insufficient_data"
        ELSE IF q.max_z > Z_SCORE_THRESHOLD_X100 THEN "anomaly"
        ELSE IF q.max_z * 10 > Z_SCORE_THRESHOLD_X100 * 8 THEN "elevated"
        ELSE "normal"

\* the alert type a check status asks a notification for
AlertTypeOf(status) ==
    CASE status = "stalled" -> "stall"
      [] status = "runaway" -> "runaway"
      [] status \in {"offline", "signal_loss"} -> "signal"
      [] status = "anomaly" -> "statistical"
      [] OTHER -> "none"

RunAllAnomalyChecks(config, http, view) ==
    LET checks == {check_stalled_fermentation(view),
                   check_temperature_deviation(view),
                   check_runaway_fermentation(view),
                   check_signal_loss(view),
                   calculate_anomaly_score(view)}
        requested == { AlertTypeOf(status) : status \in checks } \ {"none"}
        result == send_telegram_message(FALSE, config.alert_start_time,
                      config.alert_end_time, now, config.telegram_configured,
                      http)
        sent == IF result.status = "success" THEN requested ELSE {}
    IN  /\ last_sent' = LastSentAfter(sent)
        /\ short_gap' = ShortGapAfter(sent)
        /\ UNCHANGED <<notifyVars, schedVars, engineVars>>
        /\ UNCHANGED <<now, test_mode, alert_state, tilt_last_seen, watched>>
        /\ UNCHANGED ingestVars

----------------------------------------------------------------------------
(* The anomaly engine as a function of what the store answers:             *)
(* anomaly.run_all_anomaly_checks and the statistics behind                *)
(* calculate_anomaly_score.  Temperatures of the hourly series are in      *)
(* tenths of a degree, gravities in points.                                *)

MaxZ == 1000           \* z x 100 is reported up to 10.00
MaxScore == 400        \* the score x 100 is reported up to 4.00

SumSeq(s) ==
    LET f[i \in 0..Len(s)] == IF i = 0 THEN 0 ELSE f[i - 1] + s[i]
    IN  f[Len(s)]
SumSq(s) ==
    LET f[i \in 0..Len(s)] == IF i = 0 THEN 0 ELSE f[i - 1] + s[i] * s[i]
    IN  f[Len(s)]

RECURSIVE GCD(_, _)
GCD(a, b) == IF b = 0 THEN a ELSE GCD(b, a % b)
Reduced(num, den) == <<num \div GCD(num, den), den \div GCD(num, den)>>

\* faulty variant: the latest point is part of its own baseline
BaselineWithLatest(series) == series

\* array[:-1] and array[-1]
Baseline(series) == SubSeq(series, 1, Len(series) - 1)
Latest(series) == series[Len(series)]

\* np.diff(sg_array) * -1000: points lost per hour
sg_rates(sg) == [i \in 1..(Len(sg) - 1) |-> sg[i] - sg[i + 1]]

TEMP_STD_FLOOR == <<1, 1>>       \* max(temp_std, 0.1): one tenth of a degree
RATE_STD_FLOOR == <<1, 100>>     \* max(rate_std, 0.01): a hundredth of a point

\* abs((latest - mean) / max(std, floor)), squared, as a fraction in lowest
\* terms; mean and (population) std are those of the baseline
ZSquared(series, floor) ==
    LET b == Baseline(series)
        n == Len(b)
        dev == n * Latest(series) - SumSeq(b)          \* n (latest - mean)
        var == n * SumSq(b) - SumSeq(b) * SumSeq(b)    \* n^2 std^2
    IN  IF var * floor[2] * floor[2] >= n * n * floor[1] * floor[1]
        THEN Reduced(dev * dev, var)
        ELSE Reduced(dev * dev * floor[2] * floor[2],
                     n * n * floor[1] * floor[1])

\* the rate z-score is computed from more than 6 rates, otherwise it is 0.0
RateZSquared(sg) ==
    IF Len(sg_rates(sg)) > 6 THEN ZSquared(sg_rates(sg), RATE_STD_FLOOR)
    ELSE <<0, 1>>

MaxZSquared(a, b) == IF a[1] * b[2] >= b[1] * a[2] THEN a ELSE b

\* 100 z rounded up, so that z > 2.5 is  Zx100 > 250
Zx100(zz) ==
    IF 10000 * zz[1] >= MaxZ * MaxZ * zz[2] THEN MaxZ
    ELSE CHOOSE k \in 0..MaxZ :
             /\ k * k * zz[2] >= 10000 * zz[1]
             /\ k = 0 \/ (k - 1) * (k - 1) * zz[2] < 10000 * zz[1]

\* round(max_zscore / Z_SCORE_THRESHOLD, 2) x 100: the nearest integer to 40 z
Score100(zz) ==
    IF 6400 * zz[1] >= (2 * MaxScore + 1) * (2 * MaxScore + 1) * zz[2]
    THEN MaxScore
    ELSE CHOOSE sc \in 0..MaxScore :
             /\ sc = 0 \/ 6400 * zz[1] >= (2 * sc - 1) * (2 * sc - 1) * zz[2]
             /\ 6400 * zz[1] < (2 * sc + 1) * (2 * sc + 1) * zz[2]

\* what calculate_anomaly_score computes from the two hourly series
StatsOf(temps, sgs) ==
    IF Len(temps) < 12 \/ Len(sgs) < 12
    THEN ZStats(Len(temps), Len(sgs), 0, 0)
    ELSE LET zz == MaxZSquared(ZSquared(temps, TEMP_STD_FLOOR),
                               RateZSquared(sgs))
         IN  ZStats(Len(temps), Len(sgs), Zx100(zz), Score100(zz))

CheckNames ==
    {"stalled", "temp_deviation", "runaway", "signal_loss", "statistical"}

\* the query each check sends to the store
QueryOf(name) ==
    CASE name = "stalled" -> "stalled"
      [] name = "temp_deviation" -> "temp_mean"
      [] name = "runaway" -> "runaway"
      [] name = "signal_loss" -> "last_reading"
      [] name = "statistical" -> "zscore"

\* faulty variant: one try block around the five checks, so that one
\* failing query fails them all
CheckSharedTry(name, view) ==
    IF view.err # {} THEN "error"
    ELSE CASE name = "stalled" -> check_stalled_fermentation(view)
           [] name = "temp_deviation" -> check_temperature_deviation(view)
           [] name = "runaway" -> check_runaway_fermentation(view)
           [] name = "signal_loss" -> check_signal_loss(view)
           [] name = "statistical" -> calculate_anomaly_score(view)

CheckStatus(name, view) ==
    CASE name = "stalled" -> check_stalled_fermentation(view)
      [] name = "temp_deviation" -> check_temperature_deviation(view)
      [] name = "runaway" -> check_runaway_fermentation(view)
      [] name = "signal_loss" -> check_signal_loss(view)
      [] name = "statistical" -> calculate_anomaly_score(view)

\* the send_telegram_message and broadcast_alert calls a check makes on its
\* way to a status, and whether its result carries alert_sent: True
Sends(status) ==
    IF status \in {"stalled", "deviation", "runaway", "offline",
                   "signal_loss", "anomaly"}
    THEN 1 ELSE 0
Broadcasts(status) ==
    IF status \in {"stalled", "deviation", "runaway", "signal_loss",
                   "anomaly"}
    THEN 1 ELSE 0
AlertSent(status) == Sends(status) = 1

Result(status) ==
    [status |-> status, sends |-> Sends(status),
     broadcasts |-> Broadcasts(status), alert_sent |-> AlertSent(status)]

\* results["checks"]["statistical"].get("anomaly_score", 0.0)
StatisticalScore(view) ==
    IF calculate_anomaly_score(view) \in {"error", "insufficient_data"}
    THEN 0
    ELSE view.z.score

\* faulty variant: the score is looked at before the alerts
anomaly_status_by_score(alerts_sent, score) ==
    IF score >= 100 THEN "warning"
    ELSE IF score >= 80 THEN "elevated"
    ELSE IF alerts_sent > 0 THEN "critical"
    ELSE "ok"

anomaly_status(alerts_sent, score) ==
    IF alerts_sent > 0 THEN "critical"
    ELSE IF score >= 100 THEN "warning"
    ELSE IF score >= 80 THEN "elevated"
    ELSE "ok"

run_all_anomaly_checks(view) ==
    LET checks == [name \in CheckNames |-> Result(CheckStatus(name, view))]
        score == StatisticalScore(view)
        alerts_sent == Cardinality({name \in CheckNames :
                                       checks[name].alert_sent})
    IN  [returned |-> TRUE,
         checks |-> checks,
         anomaly_score |-> score,
         alerts_sent |-> alerts_sent,
         anomaly_status |-> anomaly_status(alerts_sent, score)]

NoReport ==
    [returned |-> FALSE, checks |-> [name \in CheckNames |-> Result("none")],
     anomaly_score |-> 0, alerts_sent |-> 0, anomaly_status |-> "none"]

\* One run's environment: the store's answers, the hourly Temp and SG
\* series behind the statistics among them, the configured
\* tilt_timeout_min, and the temperature target the check is given: the
\* yeast band of the configuration and the explicit override (0: none).
Probe(view, series, timeout_min, yeast_min, yeast_max, target) ==
    [view |-> view, series |-> series, tilt_timeout_min |-> timeout_min,
     yeast_min |-> yeast_min, yeast_max |-> yeast_max, target |-> target]

NoProbe ==
    Probe(View({}, -1, <<>>, 0, 0, Hourly(0, 0, 0, 0), 0, 0,
               ZStats(0, 0, 0, 0)), <<<<>>, <<>>>>, 60, 0, 0, 0)

Rep(x, n) == [i \in 1..n |-> x]
Alt(a, b, n) == [i \in 1..n |-> IF i % 2 = 1 THEN a ELSE b]

SteadySg == [i \in 1..13 |-> 1061 - i]       \* one point an hour
UnevenSg ==
    <<1060, 1060, 1058, 1058, 1056, 1056, 1054, 1054, 1052, 1052, 1050,
      1050, 1046>>

\* the hourly Temp and SG means of the last 48h
SeriesCases ==
    { <<Rep(200, 11), SteadySg>>,                      \* too few Temp points
      <<Rep(200, 13), Rep(1040, 11)>>,                 \* too few SG points
      <<Rep(200, 13), SteadySg>>,                      \* nothing moves
      <<Rep(200, 12) \o <<203>>, SteadySg>>,           \* flat baseline, z = 3
      <<Alt(200, 204, 12) \o <<206>>, SteadySg>>,      \* z = 2
      <<Alt(200, 208, 12) \o <<213>>, SteadySg>>,      \* z = 2.25
      <<Alt(200, 204, 12) \o <<207>>, SteadySg>>,      \* z = 2.5
      <<Alt(200, 204, 12) \o <<208>>, SteadySg>>,      \* z = 3
      <<Rep(200, 13), UnevenSg>>,                      \* rate z about 3.1
      <<Rep(200, 13), Rep(1040, 12) \o <<1039>>>> }    \* flat rates, z = 100

HourlyCases ==
    { Hourly(0, 0, 0, 0), Hourly(3, 1040, 1040, 2),
      Hourly(24, 1040, 1040, 23),      \* flat above 1.020
      Hourly(25, 1041, 1040, 24),      \* one point a day
      Hourly(24, 1039, 1040, 23),      \* rising
      Hourly(24, 1050, 1040, 23),      \* fermenting
      Hourly(24, 1020, 1020, 23),      \* flat at 1.020
      Hourly(4, 1021, 1021, 3),        \* flat just above
      Hourly(24, 1012, 1012, 23) }     \* finished

\* first SG of the last 12h and latest SG of the last hour
DropCases ==
    { <<0, 0>>, <<1050, 0>>, <<0, 1030>>, <<1050, 1020>>, <<1050, 1030>>,
      <<1050, 1029>>, <<1040, 1041>> }

AgeCases == {-1, 600, 3600, 3601, 5400}
TimeoutCases == {60, 120}

\* the 30 minute mean, yeast_min_temp, yeast_max_temp and the override
TempCases ==
    { <<0, 65, 75, 0>>, <<70, 65, 75, 0>>, <<80, 65, 75, 0>>,
      <<80, 0, 0, 78>> }

ErrCases ==
    { {"stalled"}, {"temp_mean"}, {"runaway"}, {"last_reading"}, {"zscore"},
      {"runaway", "zscore"}, AllQueries }

\* every combination of what the four rule checks see, on a young and on
\* a disturbed temperature history
RuleProbes ==
    { Probe(View({}, age, <<>>, d[2], 0, h, t[1], d[1],
                 StatsOf(sc[1], sc[2])),
            sc, timeout, t[2], t[3], t[4]) :
        age \in AgeCases, d \in DropCases, h \in HourlyCases,
        t \in TempCases, timeout \in TimeoutCases,
        sc \in { <<Rep(200, 11), SteadySg>>,
                 <<Rep(200, 12) \o <<203>>, SteadySg>> } }

\* every pair of hourly series, with and without a rule check that fires
SeriesProbes ==
    { Probe(View({}, age, <<>>, 1030, 0, h, 0, 1050, StatsOf(sc[1], sc[2])),
            sc, 60, 65, 75, 0) :
        age \in {600, 5400}, sc \in SeriesCases,
        h \in { Hourly(24, 1040, 1040, 23), Hourly(24, 1050, 1040, 23) } }

DataProbes == RuleProbes \cup SeriesProbes

\* the same runs with some of the store's queries raising
ErrProbes ==
    { [p EXCEPT !.view.err = e] :
        e \in ErrCases,
        p \in { q \in DataProbes :
                  /\ q.tilt_timeout_min = 60
                  /\ q.view.temp_mean = 80 /\ q.target = 0
                  /\ q.view.last_age \in {-1, 5400}
                  /\ q.view.first_sg_12h = 1050
                  /\ q.view.sg_current \in {1020, 1030}
                  /\ q.view.hourly.n = 24
                  /\ q.view.z.max_z \in {0, 300} } }

Probes == DataProbes \cup ErrProbes

\* one call of run_all_anomaly_checks (GET /api/anomaly)
RunEngine ==
    /\ report = NoReport
    /\ probe \in Probes
    /\ report' = run_all_anomaly_checks(probe.view)
    /\ UNCHANGED <<probe, curve, prediction, cycle, cycle_batch>>
    /\ UNCHANGED <<pollerVars, tilt_cache>>
    /\ UNCHANGED <<now, test_mode>>
    /\ UNCHANGED <<ingestVars, alertVars, notifyVars, schedVars>>

----------------------------------------------------------------------------
(* The final-gravity predictor: worker.predict_fg_from_curve *)

MIN_POINTS == 50

\* One call: the lengths of times and readings, how many of the zipped
\* readings lie in 0.900..1.200, whether a reading is not a number, the
\* og / yeast_attenuation metadata, what curve_fit does and what the fitted
\* parameters give for the hours to completion.
Curve(n_times, n_readings, in_band, malformed, metadata, fit, completion) ==
    [n_times |-> n_times, n_readings |-> n_readings, in_band |-> in_band,
     malformed |-> malformed, metadata |-> metadata, fit |-> fit,
     completion |-> completion]

NoCurve == Curve(0, 0, 0, FALSE, "none", "none", "none")

Lengths == {0, 49, 50, 60}
Metadata == {"unset", "valid", "garbage"}
\* curve_fit returns parameters, gives up after maxfev evaluations
\* (RuntimeError) or rejects its arguments (ValueError)
FitOutcomes == {"converged", "diverged", "rejected"}
\* t0 - (1/k) log(0.001 / (L - 0.001)): a number of hours, negative, nan,
\* +inf (k at its lower bound 0), or finite and too large for a timedelta
Completions == {"finite", "negative", "nan", "infinite", "overflow"}

Curves ==
    { c \in { Curve(nt, nr, nb, m, md, f, cp) :
                nt \in Lengths, nr \in Lengths, nb \in Lengths,
                m \in BOOLEAN, md \in Metadata, f \in FitOutcomes,
                cp \in Completions } :
        c.in_band <= c.n_times /\ c.in_band <= c.n_readings }

Prediction(raised, fg, date) == [raised |-> raised, fg |-> fg, date |-> date]
NoPrediction == Prediction(FALSE, "pending", "pending")
Nulls == Prediction(FALSE, "null", "null")

\* faulty variant: curve_fit called outside the try block
predict_fg_unguarded(c) ==
    IF c.n_times < MIN_POINTS \/ c.malformed \/ c.in_band < MIN_POINTS
    THEN Nulls
    ELSE IF c.fit # "converged" THEN Prediction(TRUE, "null", "null")
    ELSE Prediction(FALSE, "value", "value")

\* the whole body stands in try / except Exception: return None, None
predict_fg_from_curve(c) ==
    IF c.n_times < MIN_POINTS THEN Nulls
    ELSE IF c.malformed THEN Nulls                \* TypeError in the band test
    ELSE IF c.in_band < MIN_POINTS THEN Nulls
    \* a failure of the physics-informed guess is caught on its own
    ELSE IF c.fit # "converged" THEN Nulls
    ELSE IF c.completion \in {"nan", "negative"}
    THEN Prediction(FALSE, "value", "null")
    \* +inf is neither nan nor < 0: timedelta(hours=inf) raises OverflowError
    ELSE IF c.completion \in {"infinite", "overflow"} THEN Nulls
    ELSE Prediction(FALSE, "value", "value")

PredictFg ==
    /\ prediction = NoPrediction
    /\ curve \in Curves
    /\ prediction' = predict_fg_from_curve(curve)
    /\ UNCHANGED <<probe, report, curve, cycle, cycle_batch>>
    /\ UNCHANGED <<pollerVars, tilt_cache>>
    /\ UNCHANGED <<now, test_mode>>
    /\ UNCHANGED <<ingestVars, alertVars, notifyVars, schedVars>>

----------------------------------------------------------------------------
(* The body of a non-test ingestion cycle: process_data_once, from the    *)
(* readings_map to points_to_write                                        *)

\* len(readings) > 50 decides whether the predictor is called
PREDICT_GATE == 50
predictor_runs(n_readings) == n_readings > PREDICT_GATE

\* (raw_val - 32) * 5/9 if raw_val > 40 else raw_val
to_celsius(raw_val) == IF raw_val > 40 THEN ((raw_val - 32) * 5) \div 9 ELSE raw_val

\* one sensor_data timestamp of the query answer: its SG and Temp records
\* (<<>> when the timestamp has no record of that field, else <<value>>) and
\* its Color tag
Sample(ts, color, sg, temp) == [ts |-> ts, color |-> color, sg |-> sg, temp |-> temp]

\* the readings_map entry built for it: gravity in points plus the offset,
\* temperature converted when it reads as Fahrenheit
readings_map_entry(s, offset) ==
    [time |-> s.ts, color |-> s.color,
     sg |-> IF s.sg = <<>> THEN <<>> ELSE <<s.sg[1] + offset>>,
     temp |-> IF s.temp = <<>> THEN <<>> ELSE <<to_celsius(s.temp[1])>>]

\* Point("calibrated_readings").tag("Color", ..).tag("yeast", yeast) with the
\* sg and temp fields the entry has.  The point is given no time: the store
\* stamps it with the instant of the write.
CalibratedPoint(data, yeast_strain, write_time) ==
    [measurement |-> "calibrated_readings", color |-> data.color,
     yeast |-> IF yeast_strain = "" THEN "Unknown" ELSE yeast_strain,
     sg |-> data.sg, temp |-> data.temp, time |-> write_time]

\* One cycle: the number of gravity readings in the window and what the
\* predictor would make of them, one record above the watermark, the offset
\* and yeast_strain settings and the instant of the write.
Cycle(n_readings, in_band, fit, completion, sample, offset, yeast_strain, write_time) ==
    [n_readings |-> n_readings, in_band |-> in_band, fit |-> fit,
     completion |-> completion, sample |-> sample, offset |-> offset,
     yeast_strain |-> yeast_strain, write_time |-> write_time]

NoSample == Sample(0, "none", <<>>, <<>>)
NoCycle == Cycle(0, 0, "none", "none", NoSample, 0, "", 0)

\* times and readings are built from the same entries, readings are floats
CurveOf(c) ==
    Curve(c.n_readings, c.n_readings, c.in_band, FALSE, "unset", c.fit, c.completion)

Batch(predictor_ran, predictions, point) ==
    [predictor_ran |-> predictor_ran, predictions |-> predictions, point |-> point]
NoPoint == CalibratedPoint(readings_map_entry(NoSample, 0), "", 0)
NoBatch == Batch(FALSE, 0, NoPoint)

\* if pred_fg: one Point("predictions") is appended
prediction_points(c) ==
    IF ~predictor_runs(c.n_readings) THEN 0
    ELSE IF predict_fg_from_curve(CurveOf(c)).fg = "value" THEN 1 ELSE 0

points_to_write(c) ==
    Batch(predictor_runs(c.n_readings), prediction_points(c),
          CalibratedPoint(readings_map_entry(c.sample, c.offset),
                          c.yeast_strain, c.write_time))

WindowLengths == {0, 49, 50, 51, 60}
SampleTime == StartTime
\* a timestamp is in the readings_map because of at least one record
Samples ==
    { s \in { Sample(SampleTime, "RED", sg, temp) :
                sg \in {<<>>, <<1050>>}, temp \in {<<>>, <<20>>, <<68>>} } :
        s.sg # <<>> \/ s.temp # <<>> }
Offsets == {0, 0 - 2}
YeastStrains == {"", "US-05"}
\* the write follows the sample; the two instants may coincide
WriteTimes == {SampleTime, SampleTime + 60}

Cycles ==
    { c \in { Cycle(n, nb, f, cp, s, o, y, wt) :
                n \in WindowLengths, nb \in WindowLengths,
                f \in {"converged", "diverged"},
                cp \in {"finite", "negative", "infinite"},
                s \in Samples, o \in Offsets, y \in YeastStrains,
                wt \in WriteTimes } :
        \* the record's own gravity reading is one of the window's
        /\ c.in_band <= c.n_readings
        /\ c.sample.sg # <<>> => c.n_readings >= 1 }

\* the cycle builds its batch
BuildBatch ==
    /\ cycle_batch = NoBatch
    /\ cycle \in Cycles
    /\ cycle_batch' = points_to_write(cycle)
    /\ UNCHANGED <<probe, report, curve, prediction, cycle>>
    /\ UNCHANGED <<pollerVars, tilt_cache>>
    /\ UNCHANGED <<now, test_mode>>
    /\ UNCHANGED <<ingestVars, alertVars, notifyVars, schedVars>>

----------------------------------------------------------------------------
(* Live sensor poll: poll_tilt_api *)

PollTiltApi(success) ==
    /\ tilt_last_seen' = IF success THEN now ELSE tilt_last_seen
    /\ UNCHANGED <<notifyVars, schedVars, engineVars>>
    /\ UNCHANGED <<now, test_mode, alert_state, watched, last_sent, short_gap>>
    /\ UNCHANGED ingestVars

----------------------------------------------------------------------------
(* The sensor poll in full: tilt_monitor.poll_tilt_api and TILT_STATE.     *)
(* PollTiltApi above is its effect on last_seen, which is all the alert    *)
(* job reads.                                                              *)

\* an optional value is <<>> (None) or <<value>>
Cache(rssi, sg, temp, color, last_check_status, last_error) ==
    [rssi |-> rssi, sg |-> sg, temp |-> temp, color |-> color,
     last_check_status |-> last_check_status, last_error |-> last_error]

StartupCache == Cache(<<>>, <<>>, <<>>, "None", "startup", "None")

\* a field of the first device of the answer: missing or falsy, a number,
\* or something int() / float() raises on
Field(kind, value) == [kind |-> kind, value |-> value]
Absent == Field("absent", 0)
Malformed == Field("malformed", 0)

\* what one URL answers: an exception or a timeout, a status other than
\* 200, an empty or non-dict body, or a dict of devices
Answer(kind, rssi, sg, temp, color) ==
    [kind |-> kind, rssi |-> rssi, sg |-> sg, temp |-> temp, color |-> color]
Down == Answer("exception", Absent, Absent, Absent, "None")
Refused == Answer("not_200", Absent, Absent, Absent, "None")
EmptyBody == Answer("empty", Absent, Absent, Absent, "None")
Device(rssi, sg, temp) == Answer("device", rssi, sg, temp, "RED")

EndpointAnswers ==
    { Down, Refused, EmptyBody,
      Device(Field("ok", 0 - 70), Field("ok", 1050), Field("ok", 68)),
      Device(Field("ok", 0 - 80), Field("ok", 1040), Field("ok", 66)),
      Device(Absent, Field("ok", 1045), Field("ok", 67)),
      Device(Field("ok", 0 - 60), Malformed, Field("ok", 70)),
      Device(Field("ok", 0 - 65), Field("ok", 1030), Malformed) }

\* if first_device.get(name): TILT_STATE[name] = int / float (..)
Taken(old, field) == IF field.kind = "ok" THEN <<field.value>> ELSE old

\* The try block for one URL, on the cache as the URLs before it left it:
\* the fields are assigned one by one, so a conversion that raises leaves
\* the assignments before it in place.  done: this URL worked.
TryUrl(c, answer) ==
    IF answer.kind # "device" THEN [cache |-> c, done |-> FALSE]
    ELSE IF answer.rssi.kind = "malformed" THEN [cache |-> c, done |-> FALSE]
    ELSE IF answer.sg.kind = "malformed"
    THEN [cache |-> [c EXCEPT !.rssi = Taken(c.rssi, answer.rssi)],
          done |-> FALSE]
    ELSE IF answer.temp.kind = "malformed"
    THEN [cache |-> [c EXCEPT !.rssi = Taken(c.rssi, answer.rssi),
                              !.sg = Taken(c.sg, answer.sg)],
          done |-> FALSE]
    ELSE [cache |-> Cache(Taken(c.rssi, answer.rssi), Taken(c.sg, answer.sg),
                          Taken(c.temp, answer.temp), answer.color,
                          "healthy", "None"),
          done |-> TRUE]

\* for url in possible_urls: ... break on the first that worked
RECURSIVE TryUrls(_, _)
TryUrls(c, answers) ==
    IF answers = <<>> THEN [cache |-> c, done |-> FALSE]
    ELSE LET first == TryUrl(c, Head(answers))
         IN  IF first.done THEN first
             ELSE TryUrls(first.cache, Tail(answers))

Urls == 1..3

\* one run of the poll_tilt job (the sensor_health point it writes after a
\* success is not read by the jobs modelled here)
poll_tilt_api(answers) ==
    LET tried == TryUrls(tilt_cache, answers)
    IN  /\ tilt_cache' =
              IF tried.done THEN tried.cache
              ELSE [tried.cache EXCEPT !.last_check_status = "unreachable",
                                       !.last_error = "All endpoints failed"]
        /\ tilt_last_seen' = IF tried.done THEN now ELSE tilt_last_seen
        /\ UNCHANGED <<now, test_mode, alert_state, watched, last_sent,
                       short_gap>>
        /\ UNCHANGED <<probe, report, curve, prediction, cycle, cycle_batch>>
        /\ UNCHANGED <<pollerVars, ingestVars, notifyVars, schedVars>>

----------------------------------------------------------------------------
(* The Telegram command poller: telegram.telegram_poll_once *)

UpdateIds == 1..MaxUpdates

\* chat ids as str() prints them; a result without a message has no chat
\* (str(None)) and the empty text
OwnerChat == "111"
OtherChat == "222"
NoChat == "None"

Update(id, chat, text) == [id |-> id, chat |-> chat, text |-> text]
UpdateKinds ==
    { <<OwnerChat, "/status">>, <<OwnerChat, "hello">>,
      <<OtherChat, "/status">>, <<NoChat, "">> }

\* str(get_config("alert_telegram_chat")): the owner's chat, or unset
ChatSettings == {OwnerChat, NoChat}

NeverHandled == [id \in UpdateIds |-> [here |-> 0, ever |-> 0]]

\* somebody writes to the bot: Telegram numbers the update and keeps it
\* until it is confirmed
TelegramUpdate(chat, text) ==
    /\ tg_issued < MaxUpdates
    /\ tg_issued' = tg_issued + 1
    /\ tg_updates' = tg_updates \cup {Update(tg_issued + 1, chat, text)}
    /\ UNCHANGED <<last_update_id, handled, outsider_served, tilt_cache>>
    /\ UNCHANGED <<probe, report, curve, prediction, cycle, cycle_batch>>
    /\ UNCHANGED <<now, test_mode>>
    /\ UNCHANGED <<ingestVars, alertVars, notifyVars, schedVars>>

\* faulty variant: the last update is asked for again
getUpdates_offset_at_last(last) == last

\* params = {"offset": _last_update_id + 1, ..}
getUpdates_offset(last) == last + 1

\* Telegram's getUpdates: the unconfirmed updates from the offset on; every
\* update below the offset is confirmed by the call and dropped
getUpdates(offset) == { u \in tg_updates : u.id >= offset }

\* str(chat_id) != str(configured_chat): continue
passes_chat_filter(chat_id, configured_chat) == chat_id = configured_chat

\* text.startswith("/")
is_command(text) == text \in {"/status", "/help", "/ping"}

\* One run.  raise_at is the update whose handling raises (0: none): the
\* loop ends there, after _last_update_id was set to it.
telegram_poll_once(token, configured_chat, http, raise_at) ==
    /\ UNCHANGED <<tg_issued, tilt_cache>>
    /\ UNCHANGED <<probe, report, curve, prediction, cycle, cycle_batch>>
    /\ UNCHANGED <<now, test_mode>>
    /\ UNCHANGED <<ingestVars, alertVars, notifyVars, schedVars>>
    /\ IF ~token \/ http # "ok"
       THEN UNCHANGED <<last_update_id, tg_updates, handled, outsider_served>>
       ELSE LET result == getUpdates(getUpdates_offset(last_update_id))
                commands == { u \in result :
                                /\ passes_chat_filter(u.chat, configured_chat)
                                /\ is_command(u.text) }
                stop == IF raise_at \in { u.id : u \in commands }
                        THEN raise_at ELSE MaxUpdates
                seen == { u \in result : u.id <= stop }
                called == { u.id : u \in { c \in commands : c.id <= stop } }
            IN  /\ tg_updates' = result
                /\ last_update_id' =
                      IF seen = {} THEN last_update_id
                      ELSE Max({ u.id : u \in seen })
                /\ handled' = [id \in UpdateIds |->
                      IF id \in called
                      THEN [here |-> Bump(handled[id].here),
                            ever |-> Bump(handled[id].ever)]
                      ELSE handled[id]]
                /\ outsider_served' =
                      \/ outsider_served
                      \/ \E u \in commands :
                            u.id \in called /\ u.chat # configured_chat

----------------------------------------------------------------------------
(* Environment: sensor gateway, store visibility, clock, process restart *)

\* Telegraf writes a raw sample stamped with the current time; the store is
\* eventually consistent, so it may become visible to queries only later
SensorSample(visible, limit) ==
    /\ now \notin raw \cup pending
    /\ Cardinality(raw \cup pending) < limit
    /\ IF visible THEN raw' = raw \cup {now} /\ pending' = pending
                  ELSE pending' = pending \cup {now} /\ raw' = raw
    /\ UNCHANGED <<notifyVars, schedVars, engineVars>>
    /\ UNCHANGED <<now, test_mode, last_processed_time, calibrated,
                   batch_count, cycle_status>>
    /\ UNCHANGED alertVars

BecomeVisible(ts) ==
    /\ ts \in pending
    /\ pending' = pending \ {ts}
    /\ raw' = raw \cup {ts}
    /\ UNCHANGED <<notifyVars, schedVars, engineVars>>
    /\ UNCHANGED <<now, test_mode, last_processed_time, calibrated,
                   batch_count, cycle_status>>
    /\ UNCHANGED alertVars

Advance(seconds, ticks) ==
    /\ now < StartTime + ticks * seconds
    /\ now' = now + seconds
    /\ UNCHANGED <<notifyVars, schedVars, engineVars>>
    /\ UNCHANGED <<test_mode>>
    /\ UNCHANGED ingestVars
    /\ UNCHANGED alertVars

SetTestMode(b) ==
    /\ test_mode # b
    /\ test_mode' = b
    /\ UNCHANGED <<notifyVars, schedVars, engineVars>>
    /\ UNCHANGED now
    /\ UNCHANGED ingestVars
    /\ UNCHANGED alertVars

\* the process is restarted: module state is rebuilt, the store is kept
Restart ==
    /\ last_processed_time' = InitialWatermark(now)
    /\ batch_count' = [ts \in Timestamps |-> 0]
    /\ cycle_status' = "none"
    /\ alert_state' = InitialAlertState
    /\ tilt_last_seen' = 0
    /\ last_sent' = 0
    /\ last_update_id' = 0
    /\ handled' = [id \in UpdateIds |-> [handled[id] EXCEPT !.here = 0]]
    /\ tilt_cache' = StartupCache
    /\ UNCHANGED <<tg_updates, tg_issued, outsider_served>>
    /\ UNCHANGED <<probe, report, curve, prediction, cycle, cycle_batch>>
    /\ UNCHANGED <<notifyVars, schedVars>>
    /\ UNCHANGED <<now, test_mode, raw, pending, calibrated, watched,
                   short_gap>>

----------------------------------------------------------------------------
----------------------------------------------------------------------------
(* A notification request through notifications.send_telegram_message *)

NoRequest ==
    [force |-> FALSE, start |-> <<>>, end |-> <<>>, configured |-> FALSE,
     http |-> "none"]
NoResponse == [status |-> "none", reason |-> "none"]

\* configured alert_start_time / alert_end_time pairs: unset, the defaults
\* written out, a window with minutes, a window over midnight, two strings
\* that do not parse
Windows ==
    { <<<<>>, <<>>>>, <<<<8, 0>>, <<22, 0>>>>, <<<<9, 30>>, <<17, 45>>>>,
      <<<<22, 0>>, <<8, 0>>>>, <<<<8>>, <<22, 0>>>>, <<<<-1, 0>>, <<22, 0>>>> }

Requests ==
    { [force |-> f, start |-> w[1], end |-> w[2], configured |-> c, http |-> h] :
        f \in BOOLEAN, w \in Windows, c \in BOOLEAN, h \in HttpOutcomes }

\* local times of day around the window edges
ClockTimes ==
    { <<0, 0>>, <<7, 59>>, <<8, 0>>, <<9, 29>>, <<9, 30>>, <<10, 0>>,
      <<17, 44>>, <<17, 45>>, <<21, 59>>, <<22, 0>>, <<23, 0>> }
QuietClock == { StartTime + hm[1] * 3600 + hm[2] * 60 : hm \in ClockTimes }

SendTelegramMessage ==
    /\ request # NoRequest
    /\ response = NoResponse
    /\ response' = send_telegram_message(request.force, request.start,
                                         request.end, now, request.configured,
                                         request.http)
    /\ UNCHANGED <<now, test_mode, request>>
    /\ UNCHANGED <<ingestVars, alertVars, schedVars, engineVars>>

\* One call of run_all_anomaly_checks together with what the notifier did
\* with the messages of its checks: every check that fires calls
\* send_telegram_message(alert_msg) in the same configuration, at the same
\* time of day and against the same Telegram API.
RunEngineNotified ==
    /\ report = NoReport
    /\ probe \in Probes
    /\ request # NoRequest
    /\ report' = run_all_anomaly_checks(probe.view)
    /\ response' =
          IF \E name \in CheckNames : Sends(CheckStatus(name, probe.view)) > 0
          THEN send_telegram_message(FALSE, request.start, request.end, now,
                                     request.configured, request.http)
          ELSE NoResponse
    /\ UNCHANGED <<probe, curve, prediction, cycle, cycle_batch>>
    /\ UNCHANGED <<pollerVars, tilt_cache>>
    /\ UNCHANGED <<now, test_mode, request>>
    /\ UNCHANGED <<ingestVars, alertVars, schedVars>>

----------------------------------------------------------------------------
(* The scheduler: job_defaults, the interval jobs and their bodies *)

Jobs == {"emit_status", "process_data", "check_alerts", "telegram_poller",
         "poll_tilt"}

\* the function init_scheduler defines around run_all_anomaly_checks; no
\* add_job call names it, so it is none of the Jobs
anomaly_check_job == "anomaly_check"

max_instances == 1
misfire_grace_time == 60

\* seconds between a fire time and the moment the executor gets to it
Delays == {0, 30, 90}

NoEvent == [job |-> "none", kind |-> "none", due |-> 0, runs |-> 0]
Event(job, kind, due, runs) ==
    [job |-> job, kind |-> kind, due |-> due, runs |-> runs]

\* faulty variant: the ingestion job's body without its try/except
BodyCatchesButIngest(job) == job # "process_data"

\* every statement of a job's body that can raise stands inside a
\* try/except Exception that logs and returns
BodyCatches(job) ==
    CASE job = "emit_status" -> TRUE
      [] job = "process_data" -> TRUE
      [] job = "check_alerts" -> TRUE
      [] job = "telegram_poller" -> TRUE
      [] job = "poll_tilt" -> TRUE

\* faulty variant: coalesce: False, every missed fire time is run
Replayed(due) == due

\* coalesce: True, of the fire times that are due only the last one is run
Coalesced(due) == IF due > 0 THEN 1 ELSE 0

\* the executor refuses a job that has max_instances executions in flight
MaxInstancesReached(job) == instances[job] >= max_instances

\* a run later than the grace time is dropped and reported as missed
Misfired(delay) == delay > misfire_grace_time

Backlog == Cardinality({<<j, n>> \in Jobs \X (1..MaxBacklog) : n <= pending_runs[j]})

\* a fire time of the job passes; during a stall several pile up
FireTime(job, limit) ==
    /\ Backlog < limit
    /\ pending_runs' = [pending_runs EXCEPT ![job] = @ + 1]
    /\ UNCHANGED <<instances, job_event>>
    /\ UNCHANGED <<now, test_mode>>
    /\ UNCHANGED <<ingestVars, alertVars, notifyVars, engineVars>>

\* the scheduler thread wakes up and hands the job's due runs to the executor
ProcessJobs(job, delay) ==
    /\ pending_runs[job] > 0
    /\ pending_runs' = [pending_runs EXCEPT ![job] = 0]
    /\ LET due == pending_runs[job]
           runs == Coalesced(due)
       IN  IF MaxInstancesReached(job)
           THEN /\ job_event' = Event(job, "max_instances", due, 0)
                /\ UNCHANGED instances
           ELSE IF Misfired(delay)
           THEN /\ job_event' = Event(job, "missed", due, 0)
                /\ UNCHANGED instances
           ELSE /\ job_event' = Event(job, "submitted", due, runs)
                /\ instances' = [instances EXCEPT ![job] = @ + 1]
    /\ UNCHANGED <<now, test_mode>>
    /\ UNCHANGED <<ingestVars, alertVars, notifyVars, engineVars>>

\* an execution ends: the body returned, or something in it raised
JobDone(job, raises) ==
    /\ instances[job] > 0
    /\ instances' = [instances EXCEPT ![job] = @ - 1]
    /\ job_event' =
         Event(job,
               IF ~raises THEN "executed"
               ELSE IF BodyCatches(job) THEN "caught" ELSE "escaped",
               0, 0)
    /\ UNCHANGED pending_runs
    /\ UNCHANGED <<now, test_mode>>
    /\ UNCHANGED <<ingestVars, alertVars, notifyVars, engineVars>>

vars == <<now, test_mode, raw, pending, last_processed_time, calibrated,
          batch_count, cycle_status, alert_state, tilt_last_seen, watched,
          last_sent, short_gap, request, response, instances, pending_runs,
          job_event, probe, report, curve, prediction, cycle, cycle_batch,
          last_update_id, tg_updates, tg_issued, handled, outsider_served,
          tilt_cache>>

InitBase(types, times, requests) ==
    /\ now \in times
    /\ test_mode = FALSE
    /\ raw = {}
    /\ pending = {}
    /\ last_processed_time = InitialWatermark(now)
    /\ calibrated = [ts \in Timestamps |-> 0]
    /\ batch_count = [ts \in Timestamps |-> 0]
    /\ cycle_status = "none"
    /\ alert_state = InitialAlertState
    /\ tilt_last_seen = 0
    /\ watched \in types
    /\ last_sent = 0
    /\ short_gap = FALSE
    /\ request \in requests
    /\ response = NoResponse
    /\ instances = [j \in Jobs |-> 0]
    /\ pending_runs = [j \in Jobs |-> 0]
    /\ job_event = NoEvent

\* no ingestion cycle body is under observation
Unobserved ==
    /\ cycle = NoCycle
    /\ cycle_batch = NoBatch

\* module import of telegram.py and tilt_monitor.py; Telegram holds no
\* update
Idle ==
    /\ last_update_id = 0
    /\ tg_updates = {}
    /\ tg_issued = 0
    /\ handled = NeverHandled
    /\ outsider_served = FALSE
    /\ tilt_cache = StartupCache

\* no anomaly run and no prediction call is under observation
InitState(types, times, requests) ==
    /\ InitBase(types, times, requests)
    /\ probe = NoProbe
    /\ report = NoReport
    /\ curve = NoCurve
    /\ prediction = NoPrediction
    /\ Unobserved
    /\ Idle

Init == InitState({"none"}, {StartTime}, {NoRequest})

AlertStep ==
    \E run \in RunOptions, view \in StoreViews :
        CheckAlertsOnce(run[1], run[2], view)
AnomalyStep ==
    \E run \in RunOptions, view \in StoreViews :
        RunAllAnomalyChecks(run[1], run[2], view)
PollStep == \E success \in BOOLEAN : PollTiltApi(success)

IngestStep == \E outcome \in CycleOutcomes, pred \in BOOLEAN :
                  ProcessDataOnce(outcome, pred)
SampleStep == \E visible \in BOOLEAN : SensorSample(visible, MaxSamples)
VisibleStep == \E ts \in Timestamps : BecomeVisible(ts)
ConfigStep == \E b \in BOOLEAN : SetTestMode(b)

Tick == Advance(TickSeconds, MaxTicks)

\* one process lifetime: every job of the scheduler, the anomaly engine
\* and the environment
Next ==
    \/ IngestStep
    \/ AlertStep
    \/ AnomalyStep
    \/ PollStep
    \/ SampleStep
    \/ VisibleStep
    \/ Tick
    \/ ConfigStep

Spec == Init /\ [][Next]_vars

\* the ingestion job with its environment, over a longer run
IngestSampleStep ==
    \E visible \in BOOLEAN : SensorSample(visible, MaxIngestSamples)
IngestTick == Advance(TickSeconds, MaxIngestTicks)

\* one process lifetime of the ingestion job
NextLifetime ==
    \/ IngestStep
    \/ IngestSampleStep
    \/ VisibleStep
    \/ IngestTick
    \/ ConfigStep

NextIngest ==
    \/ NextLifetime
    \/ Restart

SpecIngest == Init /\ [][NextIngest]_vars

\* the ingestion job keeps being scheduled outside test mode and the store
\* keeps accepting writes; test mode does not stay on for ever
IngestCalibrates ==
    ~test_mode /\ \E pred \in BOOLEAN : ProcessDataOnce("ok", pred)

SpecLifetimeFair ==
    /\ Init /\ [][NextLifetime]_vars
    /\ SF_vars(IngestCalibrates)
    /\ WF_vars(SetTestMode(FALSE))

\* the alert policy over a day: the clock moves in steps of four hours and
\* the deliveries of one alert type are recorded
InitAlerts == InitState(AlertTypes, {StartTime}, {NoRequest})
AlertTick == Advance(AlertTickSeconds, MaxAlertTicks)

NextAlerts ==
    \/ AlertStep
    \/ AnomalyStep
    \/ PollStep
    \/ AlertTick
    \/ ConfigStep
    \/ Restart

SpecAlerts == InitAlerts /\ [][NextAlerts]_vars

\* one send_telegram_message call on every request, window and time of day
InitQuiet == InitState({"none"}, QuietClock, Requests)
NextQuiet == SendTelegramMessage
SpecQuiet == InitQuiet /\ [][NextQuiet]_vars

\* one run of the anomaly engine on every store answer and configuration
InitEngine ==
    /\ InitBase({"none"}, {StartTime}, {NoRequest})
    /\ probe \in Probes
    /\ report = NoReport
    /\ curve = NoCurve
    /\ prediction = NoPrediction
    /\ Unobserved
    /\ Idle
NextEngine == RunEngine
SpecEngine == InitEngine /\ [][NextEngine]_vars

\* one predict_fg_from_curve call on every kind of input
InitPredict ==
    /\ InitBase({"none"}, {StartTime}, {NoRequest})
    /\ probe = NoProbe
    /\ report = NoReport
    /\ curve \in Curves
    /\ prediction = NoPrediction
    /\ Unobserved
    /\ Idle
NextPredict == PredictFg
SpecPredict == InitPredict /\ [][NextPredict]_vars

\* one run of the anomaly engine in every notifier environment
\* (local midnight and ten in the morning)
NotifiedClock == {StartTime, StartTime + 10 * 3600}
InitNotified ==
    /\ InitBase({"none"}, NotifiedClock, { r \in Requests : ~r.force })
    /\ probe \in SeriesProbes
    /\ report = NoReport
    /\ curve = NoCurve
    /\ prediction = NoPrediction
    /\ Unobserved
    /\ Idle
NextNotified == RunEngineNotified
SpecNotified == InitNotified /\ [][NextNotified]_vars

\* the command poller, the people writing to the bot and process restarts
UpdateStep == \E kind \in UpdateKinds : TelegramUpdate(kind[1], kind[2])
TelegramPollStep ==
    \E token \in BOOLEAN, chat \in ChatSettings, http \in HttpOutcomes,
       raise_at \in 0..MaxUpdates :
        telegram_poll_once(token, chat, http, raise_at)
NextPoller ==
    \/ UpdateStep
    \/ TelegramPollStep
    \/ Restart
SpecPoller == Init /\ [][NextPoller]_vars

\* the sensor poll against every answer of the three URLs, and the clock
TiltPollStep == \E answers \in [Urls -> EndpointAnswers] : poll_tilt_api(answers)
TiltTick == Advance(TickSeconds, MaxIngestTicks)
NextTilt ==
    \/ TiltPollStep
    \/ TiltTick
SpecTilt == Init /\ [][NextTilt]_vars

\* one ingestion cycle body on every kind of window, record and configuration
InitCycle ==
    /\ InitBase({"none"}, {StartTime}, {NoRequest})
    /\ probe = NoProbe
    /\ report = NoReport
    /\ curve = NoCurve
    /\ prediction = NoPrediction
    /\ cycle \in Cycles
    /\ cycle_batch = NoBatch
    /\ Idle
NextCycle == BuildBatch
SpecCycle == InitCycle /\ [][NextCycle]_vars

\* the scheduler and the executions of its five jobs
FireStep == \E job \in Jobs : FireTime(job, MaxBacklog)
ProcessStep == \E job \in Jobs, delay \in Delays : ProcessJobs(job, delay)
DoneStep == \E job \in Jobs, raises \in BOOLEAN : JobDone(job, raises)

NextSched ==
    \/ FireStep
    \/ ProcessStep
    \/ DoneStep

SpecSched == Init /\ [][NextSched]_vars

\* time goes on, the scheduler thread keeps getting to every job in time,
\* and every execution ends
\* the scheduler keeps up: every job's fire times are processed within the
\* grace time, time goes on, and every execution ends
DueStep == \E job \in Jobs : FireTime(job, MaxDue)
OnTimeStep == \E job \in Jobs : ProcessJobs(job, 0)

NextSchedFair ==
    \/ DueStep
    \/ OnTimeStep
    \/ DoneStep

SpecSchedFair ==
    /\ Init /\ [][NextSchedFair]_vars
    /\ \A job \in Jobs :
          /\ SF_vars(FireTime(job, MaxDue))
          /\ WF_vars(ProcessJobs(job, 0))
          /\ WF_vars(\E raises \in BOOLEAN : JobDone(job, raises))

----------------------------------------------------------------------------
(* Ingestion claims *)

T0 == StartTime
T1 == StartTime + TickSeconds

\* C1: in one process lifetime, with ingestion cycles (successful or
\* failing) interleaved with the alert, sensor-poll and anomaly jobs, the
\* watermark never decreases and only the ingestion step changes it.
C1_WatermarkMonotone ==
    [][ /\ last_processed_time' >= last_processed_time
        /\ last_processed_time' # last_processed_time => IngestStep ]_vars

\* two samples were calibrated, the watermark stands at the later one, and
\* the alert job and the sensor poll have run in between
C1_Witness ==
    /\ last_processed_time = T1
    /\ calibrated[T0] = 1 /\ calibrated[T1] = 1
    /\ alert_state.last_temp_alert = T0
    /\ tilt_last_seen = T1

\* C2: within one process lifetime no raw timestamp is put into the write
\* batch of more than one ingestion cycle.
C2_NoDoubleEmit == \A ts \in Timestamps : batch_count[ts] <= 1

\* two cycles of one process each emitted a sample: the first batch was lost
\* by a failed write, the second was written
C2_Witness ==
    /\ batch_count[T0] = 1 /\ calibrated[T0] = 0
    /\ batch_count[T1] = 1 /\ calibrated[T1] = 1

\* C3: a cycle that ends in an error leaves the watermark where it was.
C3_FailedCycleKeepsWatermark ==
    [][ IngestStep /\ cycle_status' # "ok"
          => last_processed_time' = last_processed_time ]_vars

\* C4: a raw sample that was already calibrated and written is never put
\* into a batch again, also not after a restart.
C4_NoReEmitOfWritten ==
    [][ IngestStep =>
          \A ts \in Timestamps :
              calibrated[ts] >= 1 => batch_count'[ts] = batch_count[ts] ]_vars

\* C5: every visible raw sample above the watermark is eventually written
\* as a calibrated point exactly once.
C5_ExactlyOnceDelivery ==
    \A ts \in Timestamps :
        (ts \in raw /\ ts > last_processed_time) ~> [](calibrated[ts] = 1)

----------------------------------------------------------------------------
(* Alert policy claims *)

\* the alert_state key that holds an alert type's cooldown timestamp
CooldownStamp(type) ==
    CASE type = "signal" -> alert_state.last_tilt_alert
      [] type = "temp" -> alert_state.last_temp_alert
      [] type = "stall" -> alert_state.last_stall_alert
      [] OTHER -> 0

\* C6: two delivered notifications of one alert type, from the alert job or
\* from the anomaly checks, are at least the type's cooldown apart.
C6_CooldownInvariant == ~short_gap

\* C7: a type's cooldown timestamp is set only by a notification of that
\* type that was actually sent: whenever it is set, a notification of the
\* type was delivered at that time or later.
C7_StampOnlyFromDelivery ==
    CooldownStamp(watched) # 0 => last_sent >= CooldownStamp(watched)

----------------------------------------------------------------------------
(* Quiet-hours claim *)

\* the request's window as configured, and whether it is one "HH:MM" pair
\* with start < end
ReqStart == OrDefault(request.start, DefaultStart)
ReqEnd == OrDefault(request.end, DefaultEnd)
DayWindow ==
    /\ HourMinParses(ReqStart) /\ HourMinParses(ReqEnd)
    /\ MinutesOf(ReqStart) < MinutesOf(ReqEnd)
InWindow ==
    /\ MinutesOf(ReqStart) <= LocalMinutes(now)
    /\ LocalMinutes(now) < MinutesOf(ReqEnd)
Answered == response # NoResponse
QuietSkip == [status |-> "skipped", reason |-> "quiet_hours"]

\* C8 as stated: with a window start < end a non-forced request is sent iff
\* start <= t < end and is otherwise skipped with reason quiet_hours; a
\* forced request is never skipped.
C8_SentIffInWindow ==
    Answered =>
      /\ (~request.force /\ DayWindow) =>
            /\ (response.status = "success") <=> InWindow
            /\ ~InWindow => response = QuietSkip
      /\ request.force => response.status # "skipped"

\* C8 amended: with a window start < end a non-forced request is skipped
\* with reason quiet_hours iff t is outside start <= t < end; inside the
\* window it is sent when the Telegram credentials are set and the API
\* accepts it; a forced request is never skipped.
C8_QuietHoursGate ==
    Answered =>
      /\ (~request.force /\ DayWindow) =>
            /\ (response = QuietSkip) <=> ~InWindow
            /\ (InWindow /\ request.configured /\ request.http = "ok")
                  => response.status = "success"
            /\ response.status = "success" => InWindow
      /\ request.force => response.status # "skipped"

\* a non-forced request at 17:44 in the window 09:30-17:45 was sent
C8_Witness ==
    /\ Answered /\ ~request.force
    /\ request.start = <<9, 30>> /\ request.end = <<17, 45>>
    /\ LocalMinutes(now) = 17 * 60 + 44
    /\ response.status = "success"

----------------------------------------------------------------------------
(* Scheduler claims *)

\* C9: an exception raised inside the body of a scheduled job never leaves
\* the job; after it the same job and every other job are submitted again.
C9_FaultIsolation ==
    /\ [](job_event.kind # "escaped")
    /\ \A job \in Jobs :
          (job_event.kind = "caught")
             ~> (job_event.job = job /\ job_event.kind = "submitted")

\* the ingestion job's body raised and was caught while the alert job had
\* a run waiting
C9_Witness ==
    /\ job_event.job = "process_data" /\ job_event.kind = "caught"
    /\ pending_runs["check_alerts"] > 0

\* C10: no job has more than one execution in flight, and the fire times
\* missed during a stall are handed to the executor as at most one run.
C10_NoOverlapCoalesce ==
    /\ \A job \in Jobs : instances[job] <= 1
    /\ job_event.runs <= 1

\* two fire times of the ingestion job were missed and came out as one run,
\* while the poll's running execution had kept its next run from starting
C10_Witness ==
    /\ job_event = Event("process_data", "submitted", 2, 1)
    /\ instances["poll_tilt"] = 1

----------------------------------------------------------------------------
(* Anomaly engine claims *)

\* C11: after init_scheduler the anomaly engine is executed periodically by a
\* registered scheduler job: a run of the job that calls
\* run_all_anomaly_checks is submitted to the executor again and again,
\* with no API request involved.
C11_AnomalyJobRuns ==
    []<>(job_event.job = anomaly_check_job /\ job_event.kind = "submitted")

EngineRan == report # NoReport

\* C12: when a check of run_all_anomaly_checks fails (its store query
\* raises), that check's result has status error, every other check still
\* returns the result it returns when nothing fails, and the run returns a
\* report.
C12_CheckFailureIsolated ==
    EngineRan =>
        /\ report.returned
        /\ \A name \in CheckNames :
              IF QueryOf(name) \in probe.view.err
              THEN report.checks[name].status = "error"
              ELSE report.checks[name]
                     = Result(CheckStatus(name, [probe.view EXCEPT !.err = {}]))

\* only the runaway query raised; the stall, signal and z-score checks of
\* the same run still found what there was to find
C12_Witness ==
    /\ probe.view.err = {"runaway"}
    /\ report.returned
    /\ report.checks["runaway"].status = "error"
    /\ report.checks["stalled"].status = "stalled"
    /\ report.checks["signal_loss"].status = "offline"
    /\ report.checks["statistical"].status = "anomaly"

Silent(result) == result.sends = 0 /\ result.broadcasts = 0

\* C13: a check with too little data (stall: fewer than 4 hourly samples;
\* runaway: first or latest sample missing; z-score: fewer than 12 hourly
\* points of either series; temperature: no mean) returns a status of its
\* own that is not error, and makes no notifier send and no broadcast.
C13_InsufficientDataSilent ==
    EngineRan =>
        LET v == probe.view
            c == report.checks
        IN  /\ ("stalled" \notin v.err /\ v.hourly.n < 4)
                  => c["stalled"].status = "insufficient_data"
                       /\ Silent(c["stalled"])
            /\ ("runaway" \notin v.err
                   /\ (v.first_sg_12h = 0 \/ v.sg_current = 0))
                  => c["runaway"].status = "insufficient_data"
                       /\ Silent(c["runaway"])
            /\ ("zscore" \notin v.err /\ (v.z.temp_n < 12 \/ v.z.sg_n < 12))
                  => c["statistical"].status = "insufficient_data"
                       /\ Silent(c["statistical"])
            /\ ("temp_mean" \notin v.err /\ v.temp_mean = 0)
                  => c["temp_deviation"].status = "no_data"
                       /\ Silent(c["temp_deviation"])

\* a run on a young batch: three hourly samples, no sample in the last
\* hour, eleven hourly temperatures and no recent temperature
C13_Witness ==
    /\ EngineRan
    /\ probe.view.hourly.n = 3
    /\ probe.view.first_sg_12h = 1050 /\ probe.view.sg_current = 0
    /\ probe.view.z.temp_n = 11
    /\ probe.view.temp_mean = 0
    /\ \A name \in CheckNames \ {"signal_loss"} :
          report.checks[name].status \in {"insufficient_data", "no_data"}

\* C14: check_stalled_fermentation, given at least 4 hourly samples that
\* span at least one hour: the status is stalled and exactly one
\* notification is dispatched iff the last gravity is above 1.020 and the
\* slope, first minus last in points per day, is below 1.0; otherwise the
\* status is normal and nothing is dispatched.
C14_StallRule ==
    EngineRan =>
        LET q == probe.view.hourly
            r == report.checks["stalled"]
        IN  ("stalled" \notin probe.view.err /\ q.n >= 4 /\ q.hours >= 1)
              => IF q.last_sg > 1020 /\ (q.first_sg - q.last_sg) * 24 < q.hours
                 THEN r.status = "stalled" /\ r.sends = 1
                 ELSE r.status = "normal" /\ r.sends = 0

\* 24 hourly points flat at 1.040: stalled, one notification
C14_Witness ==
    /\ probe.view.hourly = Hourly(24, 1040, 1040, 23)
    /\ report.checks["stalled"].status = "stalled"
    /\ report.checks["stalled"].sends = 1

TwiceTarget ==
    IF probe.target # 0 THEN 2 * probe.target
    ELSE probe.yeast_min + probe.yeast_max
TwiceDeviation ==
    IF 2 * probe.view.temp_mean >= TwiceTarget
    THEN 2 * probe.view.temp_mean - TwiceTarget
    ELSE TwiceTarget - 2 * probe.view.temp_mean

\* C16: check_temperature_deviation, when a 30 minute mean exists: the
\* status is deviation and one notification is dispatched iff the mean is
\* further from the target than the fixed threshold; otherwise the status
\* is normal and nothing is dispatched.
C16_TemperatureRule ==
    EngineRan =>
        LET r == report.checks["temp_deviation"]
        IN  ("temp_mean" \notin probe.view.err /\ probe.view.temp_mean # 0)
              => IF TwiceDeviation > 2 * TEMP_DEVIATION_C
                 THEN r.status = "deviation" /\ r.sends = 1
                 ELSE r.status = "normal" /\ r.sends = 0

\* C17: check_signal_loss: offline with an alert when the last 24h hold no
\* sample; signal_loss with an alert when the last sample is older than the
\* configured tilt_timeout_min; normal with no alert otherwise.
C17_SignalLossRule ==
    EngineRan =>
        LET r == report.checks["signal_loss"]
        IN  "last_reading" \notin probe.view.err
              => IF probe.view.last_age < 0
                 THEN r.status = "offline" /\ r.sends = 1
                 ELSE IF probe.view.last_age > probe.tilt_timeout_min * 60
                 THEN r.status = "signal_loss" /\ r.sends = 1
                 ELSE r.status = "normal" /\ r.sends = 0

\* z > num / den, for the z-score of the last point of a series against the
\* mean and standard deviation of the points before it, the deviation
\* being at least floor
ZExceeds(series, floor, num, den) ==
    LET n == Len(series) - 1
        before == SubSeq(series, 1, n)
        dev == n * series[n + 1] - SumSeq(before)
        var == n * SumSq(before) - SumSeq(before) * SumSeq(before)
        least == n * n * floor[1] * floor[1]
        spread == IF var * floor[2] * floor[2] >= least
                  THEN var * floor[2] * floor[2] ELSE least
    IN  dev * dev * floor[2] * floor[2] * den * den > num * num * spread

MaxZExceeds(num, den) ==
    \/ ZExceeds(probe.series[1], TEMP_STD_FLOOR, num, den)
    \/ ZExceeds(sg_rates(probe.series[2]), RATE_STD_FLOOR, num, den)

\* C18: calculate_anomaly_score, with at least 12 hourly points of both
\* series: the status is anomaly, with exactly one notification and one
\* broadcast, iff max(z_temp, z_rate) > 2.5, each z comparing the latest
\* point with mean and floored standard deviation of all earlier points;
\* elevated iff the maximum is above 2.0 (80%) and not above 2.5;
\* otherwise normal; elevated and normal make no notification.
C18_ZScoreRule ==
    EngineRan =>
        LET r == report.checks["statistical"]
        IN  (/\ "zscore" \notin probe.view.err
             /\ Len(probe.series[1]) >= 12 /\ Len(probe.series[2]) >= 12)
              => IF MaxZExceeds(5, 2)
                 THEN r.status = "anomaly" /\ r.sends = 1 /\ r.broadcasts = 1
                 ELSE /\ r.status = IF MaxZExceeds(2, 1) THEN "elevated"
                                    ELSE "normal"
                      /\ r.sends = 0 /\ r.broadcasts = 0

\* twelve hours at exactly 20.0 degrees and then 20.3: the deviation of
\* the baseline is floored, the run reports an anomaly and alerts once
C18_Witness ==
    /\ probe.series[1] = Rep(200, 12) \o <<203>>
    /\ report.checks["statistical"].status = "anomaly"
    /\ report.checks["statistical"].sends = 1
    /\ report.checks["statistical"].broadcasts = 1

Rank(status) ==
    CASE status = "ok" -> 0
      [] status = "elevated" -> 1
      [] status = "warning" -> 2
      [] status = "critical" -> 3

ScoreMarks == {0, 79, 80, 99, 100, 124, MaxScore}

\* C19: in the report, anomaly_score is the statistical check's score (0
\* when that check produced none); anomaly_status is critical iff at least
\* one check's result says alert_sent, else warning iff the score is at
\* least 1.0, else elevated iff it is at least 0.8, else ok; and no higher
\* score and no additional alert gives a less severe status.
C19_Aggregator ==
    EngineRan =>
        LET fired == \E name \in CheckNames : report.checks[name].alert_sent
            stat == report.checks["statistical"].status
        IN  /\ report.anomaly_score
                  = IF stat \in {"error", "insufficient_data"} THEN 0
                    ELSE StatsOf(probe.series[1], probe.series[2]).score
            /\ report.anomaly_status
                  = IF fired THEN "critical"
                    ELSE IF report.anomaly_score >= 100 THEN "warning"
                    ELSE IF report.anomaly_score >= 80 THEN "elevated"
                    ELSE "ok"
            /\ \A more \in 0..Cardinality(CheckNames), higher \in ScoreMarks :
                  (more >= report.alerts_sent /\ higher >= report.anomaly_score)
                     => Rank(anomaly_status(more, higher))
                          >= Rank(report.anomaly_status)

\* no check alerted and the z-score was exactly at the threshold: the
\* statistical check says elevated, the score is 1.0, the report warning
C19_Witness ==
    /\ EngineRan
    /\ report.alerts_sent = 0
    /\ report.checks["statistical"].status = "elevated"
    /\ report.anomaly_score = 100
    /\ report.anomaly_status = "warning"

----------------------------------------------------------------------------
(* Predictor claims *)

\* C20: predict_fg_from_curve never raises to its caller; for fewer than 50
\* input points, fewer than 50 points inside the band 0.900..1.200, or a
\* failed curve fit it returns (null, null).
C20_PredictorNeverRaises ==
    prediction # NoPrediction =>
        /\ ~prediction.raised
        /\ (\/ curve.n_times < 50 \/ curve.n_readings < 50
            \/ curve.in_band < 50
            \/ curve.fit # "converged")
              => prediction = Nulls

\* sixty plausible points on which the fit does not converge
C20_Witness ==
    /\ curve.n_times = 60 /\ curve.in_band = 60 /\ ~curve.malformed
    /\ curve.fit = "diverged"
    /\ prediction = Nulls

\* C21: when the fit succeeds and the completion hour computed from the
\* fitted parameters is negative or not finite (nan or infinite),
\* predict_fg_from_curve returns (predicted_fg, null).
C21_TerminalValueWithoutDate ==
    (/\ prediction # NoPrediction
     /\ curve.n_times >= 50 /\ curve.in_band >= 50 /\ ~curve.malformed
     /\ curve.fit = "converged"
     /\ curve.completion \in {"negative", "nan", "infinite"})
       => prediction = Prediction(FALSE, "value", "null")

\* C22: a cycle runs the predictor whenever at least 50 gravity readings are
\* in the window, exactly 50 included, and adds one prediction point to its
\* batch whenever the predictor returns a terminal value.
C22_PredictorGate ==
    cycle_batch # NoBatch =>
        /\ cycle_batch.predictor_ran <=> cycle.n_readings >= 50
        /\ (cycle.n_readings >= 50
              /\ predict_fg_from_curve(CurveOf(cycle)).fg = "value")
             => cycle_batch.predictions = 1

\* C24: each calibrated point carries the timestamp of the raw sample it was
\* derived from, the raw gravity plus the offset, the configured yeast strain
\* and the temperature recorded at the same raw timestamp when there is one.
C24_CalibratedPointFields ==
    cycle_batch # NoBatch =>
        /\ cycle_batch.point.time = cycle.sample.ts
        /\ cycle.sample.sg # <<>> =>
              cycle_batch.point.sg = <<cycle.sample.sg[1] + cycle.offset>>
        /\ cycle.yeast_strain # "" => cycle_batch.point.yeast = cycle.yeast_strain
        /\ cycle.sample.temp # <<>> =>
              cycle_batch.point.temp = <<to_celsius(cycle.sample.temp[1])>>

\* the points a cycle wrote for a raw timestamp, while the history counter
\* can still show them
WrittenFor(ts) == calibrated'[ts] - calibrated[ts]

\* C23: a successful non-test cycle that starts with watermark w writes
\* exactly one calibrated point for each raw timestamp t > w of the query
\* answer and none for t <= w, and ends with the watermark at the largest
\* such t, or at w when there is none.
C23_BatchIsNewRecords ==
    [][ (~test_mode /\ \E pred \in BOOLEAN : ProcessDataOnce("ok", pred)) =>
          LET w == last_processed_time
              answer == { t \in raw : t > now - LookbackWindow }
              fresh == { t \in answer : t > w }
          IN  /\ \A t \in Timestamps :
                    /\ t \in fresh /\ calibrated[t] < MaxCount
                         => WrittenFor(t) = 1
                    /\ t \notin fresh => WrittenFor(t) = 0
              /\ last_processed_time' =
                    IF fresh = {} THEN w
                    ELSE CHOOSE t \in fresh : \A u \in fresh : u <= t ]_vars

\* a sample that became visible only after the watermark had passed it was
\* left out of the batches, the later sample was written once and the
\* watermark stands at it
C23_Witness ==
    /\ cycle_status = "ok"
    /\ T0 \in raw /\ T1 \in raw
    /\ last_processed_time = T1
    /\ calibrated[T1] = 1 /\ batch_count[T1] = 1
    /\ calibrated[T0] = 0 /\ batch_count[T0] = 0

\* C25: a check result has alert_sent = true, is counted in alerts_sent and
\* makes anomaly_status critical, only if the notifier delivered the
\* notification; one that was skipped for quiet hours or missing
\* credentials, or that failed, is not reported as sent.
C25_AlertSentMeansDelivered ==
    report # NoReport =>
        /\ \A name \in CheckNames :
              report.checks[name].alert_sent => response.status = "success"
        /\ report.alerts_sent > 0 => response.status = "success"
        /\ report.anomaly_status = "critical" => response.status = "success"

\* C26: the two quiet-hours gates agree: for every configured window
\* (minutes other than :00, start later than end, start equal to end) and
\* every local time the active-hours gate of check_alerts_once lets alerts
\* through exactly when is_quiet_hours returns false, that is, when a
\* non-forced send_telegram_message is not skipped for quiet hours.
C26_GatesAgree ==
    (Answered /\ ~request.force) =>
        (is_active_time(request.start, request.end, now)
            <=> response # QuietSkip)

\* the alert job makes a signal-loss notification: send_telegram is called
\* and last_tilt_alert is set to now
SignalNotified == alert_state'.last_tilt_alert # alert_state.last_tilt_alert

C28_HandledAtMostOnce ==
    /\ \A id \in UpdateIds : handled[id].ever <= 1
    /\ ~outsider_served

\* C28 amended: across the telegram_poll_once runs of one process lifetime
\* each update id is passed to the command handler at most once, and an
\* update whose chat id differs from the configured alert chat never
\* triggers a command or a reply, in any lifetime.
C28_HandledOncePerLifetime ==
    /\ \A id \in UpdateIds : handled[id].here <= 1
    /\ ~outsider_served

\* the owner's command was handled once, the command of another chat that
\* came after it was fetched and passed over
C28_Witness ==
    /\ last_update_id = 2
    /\ handled[1].here = 1
    /\ handled[2].ever = 0
    /\ Update(2, OtherChat, "/status") \in tg_updates

\* the cached reading: what the dashboard and the alert job read
CachedReading(c, last_seen) == <<c.sg, c.temp, c.rssi, c.color, last_seen>>

\* C29: a poll_tilt_api run in which no endpoint yields a valid reading
\* leaves the cached reading (sg, temp, rssi, color, last_seen) unchanged
\* and only sets last_check_status to unreachable; across any sequence of
\* polls last_seen never decreases.
C29_FailedPollKeepsReading ==
    [][ /\ tilt_last_seen' >= tilt_last_seen
        /\ tilt_cache'.last_check_status = "unreachable" =>
              CachedReading(tilt_cache', tilt_last_seen')
                  = CachedReading(tilt_cache, tilt_last_seen) ]_vars

\* a notification of the watched type is delivered, or a cooldown timestamp
\* moves
AlertEffect == last_sent' # last_sent \/ alert_state' # alert_state

\* C30: while test_mode is true no fermentation alert is dispatched by any
\* check, neither by the scheduled alert job nor by the anomaly engine, and
\* no cooldown timestamp changes.
C30_TestModeSilencesChecks ==
    [][ (test_mode /\ AlertEffect) => ~(AlertStep \/ AnomalyStep) ]_vars

====
